---- MODULE Spec2Model ----
(***************************************************************************)
(* Model of the Python learning app, src/main.js lines 257-749 (the        *)
(* annotated variant): the progress state (xp, level, completed lessons,   *)
(* unlocked achievements), its persistence in localStorage, start-up, and  *)
(* the run / step / test / hint / select-lesson handlers.                  *)
(* The grading harness is modelled on user texts made of a few statements, *)
(* and the prototype variant (lines 1-256) has a section of its own, as    *)
(* has the page script src/app.js (record app).  The variable shown is a   *)
(* history variable: per lesson, the index of the hint alerted last.       *)
(*                                                                         *)
(* One JavaScript task (a click handler up to its await, the continuation  *)
(* of an await, one timer tick) is one action: JavaScript runs each to     *)
(* completion on a single thread.                                          *)
(***************************************************************************)
EXTENDS Integers, Sequences, FiniteSets, TLC

\* ---------------------------------------------------------------- bounds
\* Number of lessons in the ordinary lesson feed.
NumLessons == 2
\* xp is not allowed to grow beyond this value (handlers that would exceed it
\* are not taken).
MaxXP == 110
\* Largest number of frames in a trace returned by the engine.
MaxTrace == 1
\* Largest total of failCounts over all lessons.
MaxFails == 1
\* Largest total of failCounts over all lessons in the hint sessions.
MaxAttempts == 8
\* Largest number of engine calls of src/app.js in flight together.
MaxCalls == 2
\* Largest number of frames of a trace in the playback sessions.
MaxFrames == 2
\* Largest number of statements in the text the user submits for grading.
MaxSrcLen == 2

\* ------------------------------------------------------ program constants
LEVEL_XP_QUANTUM == 100
RUN_XP == 5
STEP_XP == 10
DEFAULT_REWARD == 20
PROTO_QUANTUM == 50

\* const achievements = [...]: id and condition of each entry, in catalog
\* order.  kind "completed": Object.keys(s.completed).length >= n;
\* kind "level": s.level >= n; kind "xp": s.xp >= n.
achievements ==
    << [id |-> "first_step",   kind |-> "completed", n |-> 1],
       [id |-> "apprentice",   kind |-> "completed", n |-> 5],
       [id |-> "journey",      kind |-> "completed", n |-> 10],
       [id |-> "level_up",     kind |-> "level",     n |-> 2],
       [id |-> "level_master", kind |-> "level",     n |-> 5],
       [id |-> "explorer",     kind |-> "xp",        n |-> 100] >>

\* ach.condition(s)
condition(ach, s) ==
    CASE ach.kind = "completed" -> Cardinality(s.completed) >= ach.n
      [] ach.kind = "level"     -> s.level >= ach.n
      [] ach.kind = "xp"        -> s.xp >= ach.n

\* Array.prototype.includes on the array of unlocked ids
includes(arr, x) == \E k \in 1..Len(arr) : arr[k] = x

\* ------------------------------------------------------------ lesson feed
\* A lesson record of lessons.json: id, xp_reward (0 stands for a missing or
\* zero reward, both falsy in `lesson.xp_reward || 20`), and the number of
\* hints (-1 stands for a lesson without a hints list), and tests: the number
\* of printed lines the check function of the lesson's checker code asks for
\* (-1 stands for checker code that defines no check function).
FeedRewards == << 60, 45, 0 >>
FeedHints == << 2, -1, 0 >>
FeedTests == << 1, -1, 0 >>

LessonRecord(i) ==
    [id |-> i,
     xp_reward |-> FeedRewards[((i - 1) % Len(FeedRewards)) + 1],
     hints |-> FeedHints[((i - 1) % Len(FeedHints)) + 1],
     tests |-> FeedTests[((i - 1) % Len(FeedTests)) + 1]]

\* The ordinary feed, and a long feed of lessons without reward field and
\* without hints: as many lessons as the "apprentice" achievement asks for.
OrdinaryFeed == [i \in 1..NumLessons |-> LessonRecord(i)]
\* A feed that parses as JSON and is not a list of lesson objects: the array
\* [null].  NullLesson stands for its null entry.
NullLesson == [id |-> 0, xp_reward |-> 0, hints |-> -1, tests |-> -1]
MalformedFeed == << NullLesson >>
\* A feed with one lesson of each kind of hints field: a list of two hints,
\* no list, an empty list.
HintFeed == [i \in 1..Len(FeedHints) |-> LessonRecord(i)]
LongFeed == [i \in 1..achievements[2].n |->
                [id |-> i, xp_reward |-> 0, hints |-> -1, tests |-> 0]]

\* ------------------------------------------------------------- variables
VARIABLES
    feed,            \* lessons.json as the server serves it
    store,           \* localStorage item under STORE_KEY
    phase,           \* position of main(): "fetch", "engine", "ready", "halted"
    lessons,         \* let lessons
    currentLesson,   \* let currentLesson: index into lessons, 0 for null
    failCounts,      \* let failCounts: lesson id -> count (0 when unset)
    state,           \* let state: xp, level, completed, unlocked_achievements
    outputEl,        \* outputEl.textContent by kind of text: "info" (a status
                     \* line or the cleared panel), "startupError", "error"
                     \* ("Error: ..."), "harnessFailed", "result" (program
                     \* output, test verdict)
    runBtn,          \* runBtn.disabled
    stepBtn,         \* stepBtn.disabled
    testBtn,         \* testBtn.disabled
    runReq,          \* run handler suspended at its await
    stepReq,         \* step handler suspended at its await
    testReq,         \* lesson captured by the suspended test handler, 0 if none
    timer,           \* the setInterval of step playback: on, i, n
    shown,           \* history: lesson id -> index of the hint alerted last
                     \* for the lesson in this session, NoHint if none yet
    app              \* the script variables of src/app.js and its page

vars == << feed, store, phase, lessons, currentLesson, failCounts, state,
           outputEl, runBtn, stepBtn, testBtn, runReq, stepReq, testReq, timer,
           shown, app >>

\* ------------------------------------------------------------ persistence
\* let state = { xp: 0, level: 1, completed: {}, unlocked_achievements: [] }
DefaultState ==
    [xp |-> 0, level |-> 1, completed |-> {}, unlocked_achievements |-> << >>]

\* The stored item.  kind "absent": getItem returns null; kind "garbage": a
\* text JSON.parse rejects; kind "json": the text of an object, each field
\* either missing (<< >>) or present (<< value >>).  The completed object is
\* written as the list of its keys, every value being true.
AbsentBlob ==
    [kind |-> "absent", xp |-> << >>, level |-> << >>, completed |-> << >>,
     unlocked_achievements |-> << >>]
GarbageBlob == [AbsentBlob EXCEPT !.kind = "garbage"]

\* Keys of an object whose keys are integer-like are enumerated in ascending
\* order: the set of completed ids as the list JSON.stringify writes.
RECURSIVE KeysOf(_)
KeysOf(S) ==
    IF S = {} THEN << >>
    ELSE LET m == CHOOSE x \in S : \A y \in S : x <= y
         IN  << m >> \o KeysOf(S \ {m})

\* JSON.stringify of a state object without unlocked_achievements, as the
\* prototype variant has it
Stringify_NoAchievements(s) ==
    [kind |-> "json",
     xp |-> << s.xp >>,
     level |-> << s.level >>,
     completed |-> << KeysOf(s.completed) >>,
     unlocked_achievements |-> << >>]

\* JSON.stringify(state)
Stringify(s) ==
    [kind |-> "json",
     xp |-> << s.xp >>,
     level |-> << s.level >>,
     completed |-> << KeysOf(s.completed) >>,
     unlocked_achievements |-> << s.unlocked_achievements >>]

\* The object built from a list of keys
ObjectOf(keys) == { keys[k] : k \in 1..Len(keys) }

\* loadState(), started from in-memory state s0 with the stored item b
loadState(s0, b) ==
    IF b.kind = "garbage"
    THEN s0                                  \* JSON.parse throws: catch
    ELSE LET \* JSON.parse(getItem(STORE_KEY) || "{}"), then {...state, ...s}
             merged ==
               [xp |-> IF b.xp = << >> THEN s0.xp ELSE b.xp[1],
                level |-> IF b.level = << >> THEN s0.level ELSE b.level[1],
                completed |-> IF b.completed = << >> THEN s0.completed
                              ELSE ObjectOf(b.completed[1]),
                unlocked_achievements |->
                    IF b.unlocked_achievements = << >>
                    THEN s0.unlocked_achievements
                    ELSE b.unlocked_achievements[1]]
         IN  \* if (!state.xp) state.xp = 0; if (!state.level) state.level = 1
             \* (an object and an array are truthy, so the last two tests
             \* never replace a present value)
             [merged EXCEPT !.xp = IF merged.xp = 0 THEN 0 ELSE merged.xp,
                            !.level = IF merged.level = 0 THEN 1 ELSE merged.level]

\* A context is the pair of the in-memory state and the stored item that the
\* progress functions read and write.
Ctx == [state |-> state, store |-> store]

\* saveState()
saveState(c) == [c EXCEPT !.store = Stringify(c.state)]

\* The loop leaving after the first achievement it awards
RECURSIVE AwardFrom_FirstOnly(_, _)
AwardFrom_FirstOnly(s, k) ==
    IF k > Len(achievements) THEN s
    ELSE LET ach == achievements[k]
         IN  IF ~includes(s.unlocked_achievements, ach.id) /\ condition(ach, s)
             THEN [s EXCEPT !.unlocked_achievements = Append(@, ach.id)]
             ELSE AwardFrom_FirstOnly(s, k + 1)

\* The loop without the includes() test
RECURSIVE AwardFrom_NoIncludes(_, _)
AwardFrom_NoIncludes(s, k) ==
    IF k > Len(achievements) THEN s
    ELSE LET ach == achievements[k]
         IN  IF condition(ach, s)
             THEN AwardFrom_NoIncludes([s EXCEPT !.unlocked_achievements =
                                                   Append(@, ach.id)], k + 1)
             ELSE AwardFrom_NoIncludes(s, k + 1)

\* The for loop of checkAndAwardAchievements from catalog position k on
RECURSIVE AwardFrom(_, _)
AwardFrom(s, k) ==
    IF k > Len(achievements) THEN s
    ELSE LET ach == achievements[k]
         IN  IF ~includes(s.unlocked_achievements, ach.id) /\ condition(ach, s)
             THEN AwardFrom([s EXCEPT !.unlocked_achievements =
                                        Append(@, ach.id)], k + 1)
             ELSE AwardFrom(s, k + 1)

\* checkAndAwardAchievements()
checkAndAwardAchievements(c) ==
    LET s2 == AwardFrom(c.state, 1)
        newAchievementAwarded ==
            Len(s2.unlocked_achievements) > Len(c.state.unlocked_achievements)
    IN  IF newAchievementAwarded
        THEN saveState([c EXCEPT !.state = s2])
        ELSE c

\* addXP with the quantum of the prototype variant (50XP per level)
addXP_Quantum50(c, n) ==
    LET xp2 == c.state.xp + n
        c1 == [c EXCEPT !.state.xp = xp2,
                        !.state.level = (xp2 \div PROTO_QUANTUM) + 1]
    IN  saveState(checkAndAwardAchievements(c1))

\* addXP(n)
addXP(c, n) ==
    LET xp2 == c.state.xp + n
        c1 == [c EXCEPT !.state.xp = xp2,
                        !.state.level = (xp2 \div LEVEL_XP_QUANTUM) + 1]
    IN  saveState(checkAndAwardAchievements(c1))

\* ---------------------------------------------------------------- start-up
NoTimer == [on |-> FALSE, i |-> 0, n |-> 0]

\* No hint has been alerted.
NoHint == -1

\* src/app.js as its script leaves the page: let pyodide = null, let lessons
\* = [], let currentLesson = null, let traceData = [] (its length is kept),
\* let currentStep = 0; output is the kind of text in the output element
\* ("empty", "result", "error", "feedback"); runCalls, vizCalls, check1 and
\* check2 count the runCode, visualizeCode and checkCode activations
\* suspended at their await (checkCode: at line 50, at line 54); uncaught
\* tells whether a handler ended by an exception nothing caught.
AppLoaded ==
    [pyodide |-> FALSE, lessons |-> FALSE, currentLesson |-> 0,
     traceData |-> 0, currentStep |-> 0, output |-> "empty",
     runCalls |-> 0, vizCalls |-> 0, check1 |-> 0, check2 |-> 0,
     uncaught |-> FALSE]

LessonIds == { feed[i].id : i \in 1..Len(feed) }

\* failCounts[id] || 0
failCount(id) == failCounts[id]

TotalFails ==
    LET RECURSIVE Sum(_)
        Sum(S) == IF S = {} THEN 0
                  ELSE LET x == CHOOSE y \in S : TRUE
                       IN  failCounts[x] + Sum(S \ {x})
    IN  Sum(DOMAIN failCounts)

\* Stored items left by an earlier session of the prototype variant (lines
\* 1-256), which writes xp, level (quantum 50) and completed under the same
\* STORE_KEY and has no unlocked_achievements.
ProtoBlob(xp, done) ==
    [kind |-> "json", xp |-> << xp >>,
     level |-> << (xp \div PROTO_QUANTUM) + 1 >>,
     completed |-> << KeysOf(done) >>,
     unlocked_achievements |-> << >>]

PrototypeStores == { ProtoBlob(60, {1}), ProtoBlob(105, {}) }

\* The script variables as the page load leaves them, and the buttons.
PageLoaded ==
    /\ phase = "fetch"
    /\ lessons = << >>
    /\ currentLesson = 0
    /\ failCounts = [l \in LessonIds |-> 0]
    /\ state = DefaultState
    /\ outputEl = "info"
    /\ runBtn = FALSE /\ stepBtn = FALSE /\ testBtn = FALSE
    /\ runReq = FALSE /\ stepReq = FALSE /\ testReq = 0
    /\ timer = NoTimer
    /\ shown = [l \in LessonIds |-> NoHint]
    /\ app = AppLoaded

\* First visit: nothing stored, or a stored text that does not parse.
Init ==
    /\ feed = OrdinaryFeed
    /\ store \in {AbsentBlob, GarbageBlob}
    /\ PageLoaded

\* First visit with the ordinary feed or with the feed that is not a list of
\* lesson objects.
InitAnyFeed ==
    /\ feed \in {OrdinaryFeed, MalformedFeed}
    /\ store \in {AbsentBlob, GarbageBlob}
    /\ PageLoaded

\* First visit with the feed of the three kinds of hints field.
InitHints ==
    /\ feed = HintFeed
    /\ store = AbsentBlob
    /\ PageLoaded

\* First visit with the long lesson feed.
InitLong ==
    /\ feed = LongFeed
    /\ store = AbsentBlob
    /\ PageLoaded

\* A visit that finds what an earlier session stored, including a session of
\* the prototype variant.
InitStored ==
    /\ feed = OrdinaryFeed
    /\ store \in {AbsentBlob, GarbageBlob} \cup PrototypeStores
    /\ PageLoaded

\* The user reloads the page: every script variable is re-initialised, pending
\* requests and timers are gone, the stored item stays.
Reload ==
    /\ phase # "fetch"
    /\ phase' = "fetch"
    /\ lessons' = << >>
    /\ currentLesson' = 0
    /\ failCounts' = [l \in LessonIds |-> 0]
    /\ state' = DefaultState
    /\ outputEl' = "info"
    /\ runBtn' = FALSE /\ stepBtn' = FALSE /\ testBtn' = FALSE
    /\ runReq' = FALSE /\ stepReq' = FALSE /\ testReq' = 0
    /\ timer' = NoTimer
    /\ shown' = [l \in LessonIds |-> NoHint]
    /\ UNCHANGED << app, feed, store >>

\* main() with a loadState() that lets the exception of JSON.parse escape:
\* main() ends there
FetchOk_ParseEscapes ==
    /\ phase = "fetch"
    /\ lessons' = feed
    /\ state' = loadState(state, store)
    /\ phase' = IF store.kind = "garbage" THEN "halted" ELSE "engine"
    /\ UNCHANGED << app, shown, feed, store, currentLesson, failCounts, outputEl, runBtn,
                    stepBtn, testBtn, runReq, stepReq, testReq, timer >>

\* main(): fetch("./lessons.json") resolved and parsed; loadState() runs.
FetchOk ==
    /\ phase = "fetch"
    /\ lessons' = feed
    /\ state' = loadState(state, store)
    /\ phase' = "engine"
    /\ UNCHANGED << app, shown, feed, store, currentLesson, failCounts, outputEl, runBtn,
                    stepBtn, testBtn, runReq, stepReq, testReq, timer >>

\* main(): the fetch rejects or the body is not JSON.
FetchFail ==
    /\ phase = "fetch"
    /\ outputEl' = "startupError"
    /\ phase' = "halted"
    /\ UNCHANGED << app, shown, feed, store, lessons, currentLesson, failCounts, state,
                    runBtn, stepBtn, testBtn, runReq, stepReq, testReq, timer >>

\* main(): loadPyodide() resolved; editor, lesson list, selectLesson(0).
\* buildLessonList reads l.title of every entry and throws on a null entry:
\* main() ends there, with "Initializing Editor..." in the output panel.
EngineOk ==
    /\ phase = "engine"
    /\ outputEl' = "info"
    /\ IF \E k \in 1..Len(lessons) : lessons[k] = NullLesson
       THEN /\ phase' = "halted"
            /\ UNCHANGED currentLesson
       ELSE /\ phase' = "ready"
            /\ currentLesson' = IF Len(lessons) > 0 THEN 1 ELSE currentLesson
    /\ UNCHANGED << app, shown, feed, store, lessons, failCounts, state, runBtn, stepBtn,
                    testBtn, runReq, stepReq, testReq, timer >>

\* main(): loadPyodide() rejects.
EngineFail ==
    /\ phase = "engine"
    /\ outputEl' = "startupError"
    /\ phase' = "halted"
    /\ UNCHANGED << app, shown, feed, store, lessons, currentLesson, failCounts, state,
                    runBtn, stepBtn, testBtn, runReq, stepReq, testReq, timer >>

\* ---------------------------------------------------------------- handlers
\* selectLesson(idx), from a click on the lesson list built by main()
selectLesson(idx) ==
    /\ phase = "ready"
    /\ idx \in 1..Len(lessons)
    /\ currentLesson' = idx
    /\ failCounts' = [failCounts EXCEPT ![lessons[idx].id] = failCount(lessons[idx].id)]
    /\ outputEl' = "info"
    /\ UNCHANGED << app, shown, feed, store, phase, lessons, state, runBtn, stepBtn,
                    testBtn, runReq, stepReq, testReq, timer >>

SelectLesson == \E idx \in 1..Len(lessons) : selectLesson(idx)

\* What runCodeTrap hands to its caller: "ok" ({ast, trace, output, error:
\* null}), "exception" (the user program raised: {ast, trace, output, error:
\* str(e)}), "transport" (the engine call or JSON.parse threw and the catch
\* built {error: String(err)}), "null" (the engine text parsed to null).
TrapResults == {"ok", "exception", "transport", "null"}

\* parsed.error, as renderResult and stepBtn.onclick test it
hasError(parsed) == parsed \in {"exception", "transport"}

\* runBtn.onclick up to its await
RunClick ==
    /\ currentLesson # 0
    /\ ~runBtn
    /\ runBtn' = TRUE
    /\ outputEl' = "info"
    /\ runReq' = TRUE
    /\ UNCHANGED << app, shown, feed, store, phase, lessons, currentLesson, failCounts,
                    state, stepBtn, testBtn, stepReq, testReq, timer >>

\* runBtn.onclick after its await, runCodeTrap having returned parsed
runResume(parsed) ==
    /\ runReq
    /\ IF parsed = "null"
       THEN \* renderResult reads parsed.error of null and throws
            /\ runReq' = FALSE
            /\ UNCHANGED << store, state, outputEl, runBtn >>
       ELSE /\ state.xp + RUN_XP <= MaxXP
            /\ runReq' = FALSE
            /\ outputEl' = IF hasError(parsed) THEN "error" ELSE "result"
            /\ runBtn' = FALSE
            /\ LET c == addXP(Ctx, RUN_XP)
               IN  state' = c.state /\ store' = c.store
    /\ UNCHANGED << app, shown, feed, phase, lessons, currentLesson, failCounts, stepBtn,
                    testBtn, stepReq, testReq, timer >>

RunResume == \E parsed \in TrapResults : runResume(parsed)

\* stepBtn.onclick up to its await
StepClick ==
    /\ currentLesson # 0
    /\ ~stepBtn
    /\ stepBtn' = TRUE
    /\ outputEl' = "info"
    /\ stepReq' = TRUE
    /\ UNCHANGED << app, shown, feed, store, phase, lessons, currentLesson, failCounts,
                    state, runBtn, testBtn, runReq, testReq, timer >>

\* The continuation with a stepBtn.disabled = false placed right after the
\* await, as runBtn.onclick has it, instead of in the last tick
stepResume_EnabledAfterAwait(parsed, n) ==
    /\ stepReq
    /\ stepReq' = FALSE
    /\ CASE parsed = "null" ->
              /\ n = 0
              /\ UNCHANGED << outputEl, stepBtn, timer >>
         [] hasError(parsed) ->
              /\ n = 0
              /\ outputEl' = "error"
              /\ stepBtn' = FALSE
              /\ UNCHANGED timer
         [] parsed = "ok" /\ n = 0 ->
              /\ stepBtn' = FALSE
              /\ UNCHANGED << outputEl, timer >>
         [] parsed = "ok" /\ n > 0 ->
              /\ timer' = [on |-> TRUE, i |-> 0, n |-> n]
              /\ stepBtn' = FALSE
              /\ UNCHANGED outputEl
    /\ UNCHANGED << app, shown, feed, store, phase, lessons, currentLesson, failCounts,
                    state, runBtn, testBtn, runReq, testReq >>

\* stepBtn.onclick after its await, runCodeTrap having returned parsed; n is
\* the length of parsed.trace || []
stepResume(parsed, n) ==
    /\ stepReq
    /\ stepReq' = FALSE
    /\ CASE parsed = "null" ->
              \* parsed.error of null throws
              /\ n = 0
              /\ UNCHANGED << outputEl, stepBtn, timer >>
         [] hasError(parsed) ->
              /\ n = 0
              /\ outputEl' = "error"
              /\ stepBtn' = FALSE
              /\ UNCHANGED timer
         [] parsed = "ok" /\ n = 0 ->
              /\ stepBtn' = FALSE
              /\ UNCHANGED << outputEl, timer >>
         [] parsed = "ok" /\ n > 0 ->
              /\ timer' = [on |-> TRUE, i |-> 0, n |-> n]
              /\ UNCHANGED << outputEl, stepBtn >>
    /\ UNCHANGED << app, shown, feed, store, phase, lessons, currentLesson, failCounts,
                    state, runBtn, testBtn, runReq, testReq >>

StepResume == \E parsed \in TrapResults, n \in 0..MaxTrace : stepResume(parsed, n)

\* The same continuation in the playback sessions, with their longer traces
StepResumeFrames ==
    \E parsed \in TrapResults, n \in 0..MaxFrames : stepResume(parsed, n)

\* A tick that calls addXP(10) whenever it has rendered a frame, not only
\* after the last one
StepTick_AwardEveryTick ==
    /\ timer.on
    /\ state.xp + STEP_XP <= MaxXP
    /\ LET i2 == timer.i + 1
       IN  IF i2 >= timer.n
           THEN timer' = NoTimer /\ stepBtn' = FALSE
           ELSE timer' = [timer EXCEPT !.i = i2] /\ UNCHANGED stepBtn
    /\ LET c == addXP(Ctx, STEP_XP)
       IN  state' = c.state /\ store' = c.store
    /\ UNCHANGED << app, shown, feed, phase, lessons, currentLesson, failCounts, outputEl,
                    runBtn, testBtn, runReq, stepReq, testReq >>

\* One tick of the setInterval callback of stepBtn.onclick: it renders
\* arr[i] for i = timer.i, then counts i up
StepTick ==
    /\ timer.on
    /\ LET i2 == timer.i + 1
       IN  IF i2 >= timer.n
           THEN /\ state.xp + STEP_XP <= MaxXP
                /\ timer' = NoTimer
                /\ stepBtn' = FALSE
                /\ LET c == addXP(Ctx, STEP_XP)
                   IN  state' = c.state /\ store' = c.store
           ELSE /\ timer' = [timer EXCEPT !.i = i2]
                /\ UNCHANGED << stepBtn, state, store >>
    /\ UNCHANGED << app, shown, feed, phase, lessons, currentLesson, failCounts, outputEl,
                    runBtn, testBtn, runReq, stepReq, testReq >>

\* ----------------------------------------------------------------- grading
\* The text of the editor, codeEditor.getValue(), as a list of statements:
\* "print" writes one line to stdout, "raise" raises an Exception, "quotes" is
\* a statement that holds a triple-quoted string (a docstring), "escape" is
\* an assignment of a one-line string literal that holds the two characters
\* backslash and n.
SrcTokens == {"print", "raise", "quotes", "escape"}
Sources == UNION { [1..k -> SrcTokens] : k \in 0..MaxSrcLen }

\* Python's exec(compile(text, ...), {}) with stdout redirected: the number
\* of lines written before the text ends or raises, whether it raised, and
\* the kind of str(e).  A "broken" statement (a string literal cut by a line
\* break) makes compile raise a SyntaxError before anything runs.
exec(text) ==
    LET RECURSIVE Go(_, _)
        Go(k, out) ==
            IF k > Len(text)
            THEN [out |-> out, raised |-> FALSE, error |-> "none"]
            ELSE CASE text[k] = "print" -> Go(k + 1, out + 1)
                   [] text[k] = "raise" ->
                        [out |-> out, raised |-> TRUE, error |-> "exception"]
                   [] OTHER -> Go(k + 1, out)
    IN  IF \E k \in 1..Len(text) : text[k] = "broken"
        THEN [out |-> 0, raised |-> TRUE, error |-> "syntax"]
        ELSE Go(1, 0)

\* The value Python gives the literal """${userSrc}""" when it closes at its
\* end: escape sequences are processed, so backslash-n becomes a line break
\* and the statement that held it is broken.
pythonLiteral(text) ==
    [k \in 1..Len(text) |-> IF text[k] = "escape" THEN "broken" ELSE text[k]]

\* `_user = """${userSrc}"""`: Python ends the literal at the first """ of the
\* spliced text; what follows it is read as code of the harness.
literalCloses(text) == \A k \in 1..Len(text) : text[k] # "quotes"

Rejected == [rejected |-> TRUE, passed |-> FALSE, error |-> "none",
             output |-> 0, ran |-> FALSE]

\* await pyodide.runPythonAsync(harness) followed by JSON.parse: the harness
\* of testBtn.onclick with userSrc and lesson.tests spliced in.  `ran` tells
\* whether exec(_checker, checker_ns) was reached.
harness(userSrc, tests) ==
    IF ~literalCloses(userSrc)
    THEN \* the harness text is not a Python program: the call rejects
         Rejected
    ELSE LET u == exec(pythonLiteral(userSrc))
         IN  IF u.raised
             THEN \* except Exception as e
                  [rejected |-> FALSE, passed |-> FALSE, error |-> u.error,
                   output |-> u.out, ran |-> FALSE]
             ELSE IF tests >= 0
                  THEN \* 'check' in checker_ns
                       [rejected |-> FALSE, passed |-> (u.out = tests),
                        error |-> "none", output |-> u.out, ran |-> TRUE]
                  ELSE [rejected |-> FALSE, passed |-> FALSE,
                        error |-> "nocheck", output |-> u.out, ran |-> TRUE]

\* testBtn.onclick up to its await: const lesson = currentLesson
TestClick ==
    /\ currentLesson # 0
    /\ ~testBtn
    /\ testBtn' = TRUE
    /\ outputEl' = "info"
    /\ testReq' = currentLesson
    /\ UNCHANGED << app, shown, feed, store, phase, lessons, currentLesson, failCounts,
                    state, runBtn, stepBtn, runReq, stepReq, timer >>

\* lesson.xp_reward || 20
reward(lesson) == IF lesson.xp_reward = 0 THEN DEFAULT_REWARD ELSE lesson.xp_reward

\* The passed branch as the prototype variant has it: the reward is added
\* without looking at state.completed
testPassed_AlwaysAward(c, lesson) ==
    LET a == addXP(c, reward(lesson))
        c1 == [a EXCEPT !.state.completed = @ \cup {lesson.id}]
    IN  checkAndAwardAchievements(saveState(c1))

\* The passed branch without the checkAndAwardAchievements() call that
\* follows the completion
testPassed_NoFinalCheck(c, lesson) ==
    LET c1 == IF lesson.id \notin c.state.completed
              THEN LET a == addXP(c, reward(lesson))
                   IN  [a EXCEPT !.state.completed = @ \cup {lesson.id}]
              ELSE c
    IN  saveState(c1)

\* The passed branch without the saveState() call that follows the completion
testPassed_NoSave(c, lesson) ==
    LET c1 == IF lesson.id \notin c.state.completed
              THEN LET a == addXP(c, reward(lesson))
                   IN  [a EXCEPT !.state.completed = @ \cup {lesson.id}]
              ELSE c
    IN  checkAndAwardAchievements(c1)

\* The parsed.passed branch of testBtn.onclick
testPassed(c, lesson) ==
    LET c1 == IF lesson.id \notin c.state.completed
              THEN LET a == addXP(c, reward(lesson))
                   IN  [a EXCEPT !.state.completed = @ \cup {lesson.id}]
              ELSE c
    IN  checkAndAwardAchievements(saveState(c1))

\* The passed branch applied to the lesson that is selected when the result
\* arrives
TestPass_CurrentLesson ==
    /\ testReq # 0
    /\ currentLesson # 0
    /\ LET lesson == lessons[currentLesson]
           c == testPassed(Ctx, lesson)
       IN  /\ c.state.xp <= MaxXP
           /\ state' = c.state
           /\ store' = c.store
    /\ outputEl' = "result"
    /\ testBtn' = FALSE
    /\ testReq' = 0
    /\ UNCHANGED << app, shown, feed, phase, lessons, currentLesson, failCounts, runBtn,
                    stepBtn, runReq, stepReq, timer >>

\* testBtn.onclick after its await, the engine text parsed to {passed: true}
TestPass ==
    /\ testReq # 0
    /\ LET lesson == lessons[testReq]
           c == testPassed(Ctx, lesson)
       IN  /\ c.state.xp <= MaxXP
           /\ state' = c.state
           /\ store' = c.store
    /\ outputEl' = "result"
    /\ testBtn' = FALSE
    /\ testReq' = 0
    /\ UNCHANGED << app, shown, feed, phase, lessons, currentLesson, failCounts, runBtn,
                    stepBtn, runReq, stepReq, timer >>

\* The else branch with a hint index that is not clamped to the last hint
testHint_NoClamp(lesson, attempts) ==
    IF lesson.hints >= 0 /\ attempts % 2 = 0
    THEN LET hid == (attempts \div 2) - 1
         IN  IF hid >= 0 THEN hid ELSE NoHint
    ELSE NoHint

\* The else branch with an automatic hint that is always the first hint
testHint_FirstHint(lesson, attempts) ==
    IF lesson.hints >= 1 /\ attempts % 2 = 0 THEN 0 ELSE NoHint

\* The else branch of testBtn.onclick: the index hid of the hint it alerts
\* after the attempts-th failure, NoHint when it alerts nothing
testHint(lesson, attempts) ==
    IF lesson.hints >= 0 /\ attempts % 2 = 0
    THEN LET a == (attempts \div 2) - 1
             hid == IF a < lesson.hints - 1 THEN a ELSE lesson.hints - 1
         IN  IF hid >= 0 THEN hid ELSE NoHint
    ELSE NoHint

\* testBtn.onclick after its await, the engine text parsed to {passed: false};
\* cap bounds the total of failCounts
testFail(cap) ==
    /\ testReq # 0
    /\ TotalFails < cap
    /\ LET lesson == lessons[testReq]
           attempts == failCount(lesson.id) + 1
           hid == testHint(lesson, attempts)
       IN  /\ failCounts' = [failCounts EXCEPT ![lesson.id] = attempts]
           /\ shown' = IF hid # NoHint
                       THEN [shown EXCEPT ![lesson.id] = hid] ELSE shown
    /\ outputEl' = "result"
    /\ testBtn' = FALSE
    /\ testReq' = 0
    /\ UNCHANGED << app, feed, store, phase, lessons, currentLesson, state, runBtn,
                    stepBtn, runReq, stepReq, timer >>

TestFail == testFail(MaxFails)
TestFailMany == testFail(MaxAttempts)

\* testBtn.onclick after its await, the catch branch: runPythonAsync rejected,
\* JSON.parse threw, or parsed is null and parsed.output threw
TestHarnessFailed ==
    /\ testReq # 0
    /\ outputEl' = "harnessFailed"
    /\ testBtn' = FALSE
    /\ testReq' = 0
    /\ UNCHANGED << app, shown, feed, store, phase, lessons, currentLesson, failCounts,
                    state, runBtn, stepBtn, runReq, stepReq, timer >>

\* testBtn.onclick after its await, for the text userSrc read from the editor
\* at the click and an engine that runs the harness
gradeResume(userSrc) ==
    /\ testReq # 0
    /\ LET parsed == harness(userSrc, lessons[testReq].tests)
       IN  CASE parsed.rejected -> TestHarnessFailed
             [] parsed.passed -> TestPass
             [] OTHER -> TestFail

GradeResume == \E userSrc \in Sources : gradeResume(userSrc)

\* Math.min(Math.floor(attempts / 2), (currentLesson.hints || []).length - 1)
hintIndex(lesson, attempts) ==
    LET len == IF lesson.hints < 0 THEN 0 ELSE lesson.hints
        a == attempts \div 2
    IN  IF a < len - 1 THEN a ELSE len - 1

\* hintBtn.onclick: the index of the hint it alerts, NoHint when it alerts
\* "No more hints available for this lesson!"
hintShown(lesson, attempts) ==
    LET idx == hintIndex(lesson, attempts)
    IN  IF lesson.hints >= 0 /\ idx >= 0 /\ idx < lesson.hints
        THEN idx ELSE NoHint

\* hintBtn.onclick; cap bounds the total of failCounts
hintClick(cap) ==
    /\ currentLesson # 0
    /\ LET lesson == lessons[currentLesson]
           attempts == failCount(lesson.id)
           idx == hintShown(lesson, attempts)
       IN  IF idx # NoHint
           THEN /\ TotalFails < cap
                /\ shown' = [shown EXCEPT ![lesson.id] = idx]
                /\ failCounts' = [failCounts EXCEPT ![lesson.id] = attempts + 1]
           ELSE UNCHANGED << failCounts, shown >>
    /\ UNCHANGED << app, feed, store, phase, lessons, currentLesson, state, outputEl,
                    runBtn, stepBtn, testBtn, runReq, stepReq, testReq, timer >>

HintClick == hintClick(MaxFails)
HintClickMany == hintClick(MaxAttempts)

\* ------------------------------------------------------ progress functions
\* The progress functions of lines 341-377 called directly, in any order, on
\* the state of a first visit.
InitProgress ==
    /\ feed = OrdinaryFeed
    /\ store = AbsentBlob
    /\ PageLoaded

\* Amounts handed to addXP: nothing, one point, the run and step awards, the
\* default lesson reward and the rewards of the ordinary feed.
Amounts == {0, 1, RUN_XP, STEP_XP, DEFAULT_REWARD} \cup
           { FeedRewards[k] : k \in 1..Len(FeedRewards) }

UIUnchanged ==
    UNCHANGED << app, shown, feed, phase, lessons, currentLesson, failCounts, outputEl,
                 runBtn, stepBtn, testBtn, runReq, stepReq, testReq, timer >>

\* a call addXP(n)
addXPCall(n) ==
    /\ state.xp + n <= MaxXP
    /\ LET c == addXP(Ctx, n)
       IN  state' = c.state /\ store' = c.store
    /\ UIUnchanged

CallAddXP == \E n \in Amounts : addXPCall(n)

\* a call checkAndAwardAchievements()
CallCheck ==
    /\ LET c == checkAndAwardAchievements(Ctx)
       IN  state' = c.state /\ store' = c.store
    /\ UIUnchanged

\* the statement state.completed[lesson.id] = true
CallComplete ==
    /\ \E id \in LessonIds : state' = [state EXCEPT !.completed = @ \cup {id}]
    /\ UNCHANGED store
    /\ UIUnchanged

\* a call saveState()
CallSave ==
    /\ store' = saveState(Ctx).store
    /\ UNCHANGED state
    /\ UIUnchanged

NextProgress ==
    \/ CallAddXP
    \/ CallCheck
    \/ CallComplete
    \/ CallSave

SpecProgress == InitProgress /\ [][NextProgress]_vars

\* ------------------------------------------------------- prototype variant
\* The prototype of src/main.js lines 1-256 on the same variables: its state
\* object has no unlocked_achievements (kept empty here), its level quantum
\* is 50 and it has no achievements.  The answer of the engine to the
\* grading call is an input, as above.

\* JSON.stringify(state) of the prototype, whose state object has the keys
\* xp, level and completed
protoStringify(s) ==
    [kind |-> "json",
     xp |-> << s.xp >>,
     level |-> << s.level >>,
     completed |-> << KeysOf(s.completed) >>,
     unlocked_achievements |-> << >>]

\* saveState() of the prototype
protoSaveState(c) == [c EXCEPT !.store = protoStringify(c.state)]

\* loadState() of the prototype
protoLoadState(s0, b) ==
    [loadState(s0, b) EXCEPT !.unlocked_achievements = << >>]

\* addXP(n) of the prototype
protoAddXP(c, n) ==
    LET xp2 == c.state.xp + n
    IN  protoSaveState([c EXCEPT !.state.xp = xp2,
                                 !.state.level = (xp2 \div PROTO_QUANTUM) + 1])

\* The page as the synchronous part of init() leaves it: loadState() has run,
\* the fetch is pending.
InitProto ==
    /\ feed = OrdinaryFeed
    /\ store \in {AbsentBlob, GarbageBlob}
    /\ phase = "fetch"
    /\ lessons = << >>
    /\ currentLesson = 0
    /\ failCounts = [l \in LessonIds |-> 0]
    /\ state = protoLoadState(DefaultState, store)
    /\ outputEl = "info"
    /\ runBtn = FALSE /\ stepBtn = FALSE /\ testBtn = FALSE
    /\ runReq = FALSE /\ stepReq = FALSE /\ testReq = 0
    /\ timer = NoTimer
    /\ shown = [l \in LessonIds |-> NoHint]
    /\ app = AppLoaded

\* The user reloads the prototype page.
ProtoReload ==
    /\ phase # "fetch"
    /\ phase' = "fetch"
    /\ lessons' = << >>
    /\ currentLesson' = 0
    /\ failCounts' = [l \in LessonIds |-> 0]
    /\ state' = protoLoadState(DefaultState, store)
    /\ outputEl' = "info"
    /\ runBtn' = FALSE /\ stepBtn' = FALSE /\ testBtn' = FALSE
    /\ runReq' = FALSE /\ stepReq' = FALSE /\ testReq' = 0
    /\ timer' = NoTimer
    /\ shown' = [l \in LessonIds |-> NoHint]
    /\ UNCHANGED << app, feed, store >>

\* init(): the fetch resolved and parsed
ProtoFetchOk ==
    /\ phase = "fetch"
    /\ lessons' = feed
    /\ phase' = "engine"
    /\ UNCHANGED << app, shown, feed, store, currentLesson, failCounts, state, outputEl,
                    runBtn, stepBtn, testBtn, runReq, stepReq, testReq, timer >>

\* init(): the fetch or loadPyodide() rejects; init() has no catch
ProtoInitFail ==
    /\ phase \in {"fetch", "engine"}
    /\ phase' = "halted"
    /\ UNCHANGED << app, shown, feed, store, lessons, currentLesson, failCounts, state,
                    outputEl, runBtn, stepBtn, testBtn, runReq, stepReq,
                    testReq, timer >>

\* init(): loadPyodide() resolved; buildLessonList(), selectLesson(0)
ProtoEngineOk ==
    /\ phase = "engine"
    /\ Len(lessons) > 0
    /\ currentLesson' = 1
    /\ outputEl' = "info"
    /\ phase' = "ready"
    /\ UNCHANGED << app, shown, feed, store, lessons, failCounts, state, runBtn, stepBtn,
                    testBtn, runReq, stepReq, testReq, timer >>

\* selectLesson(idx) of the prototype, from a click on the lesson list
ProtoSelectLesson == \E idx \in 1..Len(lessons) : selectLesson(idx)

\* testBtn.onclick of the prototype up to its await
ProtoTestClick == TestClick

\* The parsed.passed branch of the prototype's testBtn.onclick
protoTestPassed(c, lesson) ==
    LET a == protoAddXP(c, reward(lesson))
    IN  protoSaveState([a EXCEPT !.state.completed = @ \cup {lesson.id}])

\* testBtn.onclick of the prototype after its await, the engine text parsed
\* to {passed: true}
ProtoTestPass ==
    /\ testReq # 0
    /\ LET c == protoTestPassed(Ctx, lessons[testReq])
       IN  /\ c.state.xp <= MaxXP
           /\ state' = c.state
           /\ store' = c.store
    /\ outputEl' = "result"
    /\ testBtn' = FALSE
    /\ testReq' = 0
    /\ UNCHANGED << app, shown, feed, phase, lessons, currentLesson, failCounts, runBtn,
                    stepBtn, runReq, stepReq, timer >>

\* testBtn.onclick of the prototype after its await, {passed: false}
ProtoTestFail == TestFail

\* testBtn.onclick of the prototype after its await, the catch branch
ProtoTestHarnessFailed == TestHarnessFailed

NextProto ==
    \/ ProtoReload
    \/ ProtoFetchOk
    \/ ProtoInitFail
    \/ ProtoEngineOk
    \/ ProtoSelectLesson
    \/ ProtoTestClick
    \/ ProtoTestPass
    \/ ProtoTestFail
    \/ ProtoTestHarnessFailed

SpecProto == InitProto /\ [][NextProto]_vars

\* ---------------------------------------------------------------- app.js
\* The page of src/app.js: a script of its own with its own variables, kept
\* in the record app.  initPyodide() and loadLessons() are started at the end
\* of the script and not awaited, and no button is ever disabled.
mainVars == << feed, store, phase, lessons, currentLesson, failCounts, state,
               outputEl, runBtn, stepBtn, testBtn, runReq, stepReq, testReq,
               timer, shown >>

InFlight == app.runCalls + app.vizCalls + app.check1 + app.check2

\* initPyodide(): loadPyodide() resolved
AppEngineLoaded ==
    /\ ~app.pyodide
    /\ app' = [app EXCEPT !.pyodide = TRUE]
    /\ UNCHANGED mainVars

\* loadLessons(): fetch and res.json() resolved, the list is built
AppLessonsLoaded ==
    /\ ~app.lessons
    /\ app' = [app EXCEPT !.lessons = TRUE]
    /\ UNCHANGED mainVars

\* loadLesson(id), from a click on the lesson list
loadLesson(id) ==
    /\ app.lessons
    /\ app' = [app EXCEPT !.currentLesson = id, !.output = "empty"]
    /\ UNCHANGED mainVars

LoadLesson == \E id \in 1..NumLessons : loadLesson(id)

\* runCode() up to its await; pyodide.runPythonAsync of null throws inside
\* the try
RunCodeClick ==
    /\ IF app.pyodide
       THEN /\ InFlight < MaxCalls
            /\ app' = [app EXCEPT !.runCalls = @ + 1]
       ELSE app' = [app EXCEPT !.output = "error"]
    /\ UNCHANGED mainVars

\* runCode() after its await
RunCodeDone ==
    /\ app.runCalls > 0
    /\ \E settled \in {"resolved", "rejected"} :
         app' = [app EXCEPT !.runCalls = @ - 1,
                            !.output = IF settled = "resolved" THEN "result"
                                       ELSE "error"]
    /\ UNCHANGED mainVars

\* checkCode() up to its first await, for a lesson with one test.  Without
\* an engine the call of line 50 throws inside the try and the call of line
\* 54 throws outside it.
CheckClick ==
    /\ app.currentLesson # 0
    /\ IF app.pyodide
       THEN /\ InFlight < MaxCalls
            /\ app' = [app EXCEPT !.check1 = @ + 1]
       ELSE app' = [app EXCEPT !.uncaught = TRUE]
    /\ UNCHANGED mainVars

\* checkCode() after the await of line 50, resolved or rejected (caught): it
\* goes on to the call of line 54
CheckFirstDone ==
    /\ app.check1 > 0
    /\ app' = [app EXCEPT !.check1 = @ - 1, !.check2 = @ + 1]
    /\ UNCHANGED mainVars

\* checkCode() after the await of line 54: the feedback is shown, or the
\* rejection leaves the handler
CheckSecondDone ==
    /\ app.check2 > 0
    /\ \E settled \in {"resolved", "rejected"} :
         IF settled = "resolved"
         THEN app' = [app EXCEPT !.check2 = @ - 1, !.output = "feedback"]
         ELSE app' = [app EXCEPT !.check2 = @ - 1, !.uncaught = TRUE]
    /\ UNCHANGED mainVars

\* visualizeCode() up to its await
VisualizeClick ==
    /\ IF app.pyodide
       THEN /\ InFlight < MaxCalls
            /\ app' = [app EXCEPT !.vizCalls = @ + 1]
       ELSE app' = [app EXCEPT !.output = "error"]
    /\ UNCHANGED mainVars

\* The continuation of visualizeCode() without currentStep = 0
visualizeDone_KeepsCursor(settled, n) ==
    /\ app.vizCalls > 0
    /\ IF settled = "resolved"
       THEN app' = [app EXCEPT !.vizCalls = @ - 1, !.traceData = n]
       ELSE /\ n = 0
            /\ app' = [app EXCEPT !.vizCalls = @ - 1, !.output = "error"]
    /\ UNCHANGED mainVars

\* visualizeCode() after its await: the call resolved with the JSON text of
\* a list of n frames, or it rejected or the text did not parse
visualizeDone(settled, n) ==
    /\ app.vizCalls > 0
    /\ IF settled = "resolved"
       THEN app' = [app EXCEPT !.vizCalls = @ - 1, !.traceData = n,
                               !.currentStep = 0]
       ELSE /\ n = 0
            /\ app' = [app EXCEPT !.vizCalls = @ - 1, !.output = "error"]
    /\ UNCHANGED mainVars

VisualizeDone ==
    \E settled \in {"resolved", "rejected"}, n \in 0..MaxFrames :
        visualizeDone(settled, n)

\* The click listener of prevStep; without the step the click changes
\* nothing
prevStep ==
    /\ app.currentStep > 0
    /\ app' = [app EXCEPT !.currentStep = @ - 1]
    /\ UNCHANGED mainVars

\* The click listener of nextStep
nextStep ==
    /\ app.currentStep < app.traceData - 1
    /\ app' = [app EXCEPT !.currentStep = @ + 1]
    /\ UNCHANGED mainVars

InitApp ==
    /\ feed = OrdinaryFeed
    /\ store = AbsentBlob
    /\ PageLoaded

NextApp ==
    \/ AppEngineLoaded
    \/ AppLessonsLoaded
    \/ LoadLesson
    \/ RunCodeClick
    \/ RunCodeDone
    \/ CheckClick
    \/ CheckFirstDone
    \/ CheckSecondDone
    \/ VisualizeClick
    \/ VisualizeDone
    \/ prevStep
    \/ nextStep

SpecApp == InitApp /\ [][NextApp]_vars

\* ------------------------------------------------------------ the program
Next ==
    \/ Reload
    \/ FetchOk
    \/ FetchFail
    \/ EngineOk
    \/ EngineFail
    \/ SelectLesson
    \/ RunClick
    \/ RunResume
    \/ StepClick
    \/ StepResume
    \/ StepTick
    \/ TestClick
    \/ TestPass
    \/ TestFail
    \/ TestHarnessFailed
    \/ HintClick

Spec == Init /\ [][Next]_vars

\* A session on the long feed in which no grading fails: failCounts, which no
\* progress function reads, stays 0.
NextLong ==
    \/ FetchOk
    \/ FetchFail
    \/ EngineOk
    \/ EngineFail
    \/ SelectLesson
    \/ RunClick
    \/ RunResume
    \/ StepClick
    \/ StepResume
    \/ StepTick
    \/ TestClick
    \/ TestPass
    \/ TestHarnessFailed
    \/ HintClick

SpecLong == InitLong /\ [][NextLong]_vars
SpecStored == InitStored /\ [][Next]_vars

\* Sessions in which the user edits the text before every Test click and the
\* engine runs the harness; TestHarnessFailed is the engine call failing for
\* a reason of its own.
NextGrade ==
    \/ Reload
    \/ FetchOk
    \/ FetchFail
    \/ EngineOk
    \/ EngineFail
    \/ SelectLesson
    \/ TestClick
    \/ GradeResume
    \/ TestHarnessFailed

SpecAnyFeed == InitAnyFeed /\ [][Next]_vars

\* Sessions of failed gradings and hint requests.
NextHints ==
    \/ FetchOk
    \/ FetchFail
    \/ EngineOk
    \/ EngineFail
    \/ SelectLesson
    \/ TestClick
    \/ TestFailMany
    \/ HintClickMany

SpecHints == InitHints /\ [][NextHints]_vars

\* Sessions of grading on the hint feed in which the user selects lessons
\* while a grading request is in flight.
NextSwitch ==
    \/ FetchOk
    \/ FetchFail
    \/ EngineOk
    \/ EngineFail
    \/ SelectLesson
    \/ TestClick
    \/ TestPass
    \/ TestFailMany
    \/ TestHarnessFailed
    \/ HintClickMany

SpecSwitch == InitHints /\ [][NextSwitch]_vars

\* Sessions of step playback on traces of up to MaxFrames frames.
NextStep ==
    \/ Reload
    \/ FetchOk
    \/ FetchFail
    \/ EngineOk
    \/ EngineFail
    \/ SelectLesson
    \/ StepClick
    \/ StepResumeFrames
    \/ StepTick

SpecStep == Init /\ [][NextStep]_vars

SpecGrade == InitStored /\ [][NextGrade]_vars

\* ------------------------------------------------------------------ claims
unlocked(id) == includes(state.unlocked_achievements, id)

NoDuplicates(arr) ==
    \A j, k \in 1..Len(arr) : arr[j] = arr[k] => j = k

\* C1: starting from the fresh state, after every addXP call with a
\* non-negative amount xp has grown by exactly that amount and level equals
\* floor(xp / 100) + 1.
C1_LevelFollowsXP ==
    /\ [](state.level = (state.xp \div 100) + 1)
    /\ [][\A n \in Amounts : addXPCall(n) => state'.xp = state.xp + n]_vars

\* addXP calls have carried xp over the first level boundary.
C1_Witness == state.xp = 105 /\ state.level = 2

\* C2: a passing grade on a lesson whose id is already in state.completed
\* leaves xp and level unchanged, so the reward of a lesson is added at most
\* once.
C2_RewardOnlyOnce ==
    [][(testReq # 0 /\ lessons[testReq].id \in state.completed /\ TestPass)
          => (state'.xp = state.xp /\ state'.level = state.level)]_vars

\* A grading request is in flight for a lesson that is already completed.
C2_Witness == testReq # 0 /\ lessons[testReq].id \in state.completed

\* C3: starting from the fresh state, whenever a handler has finished every
\* achievement of the catalog whose condition is true on the current state
\* is in state.unlocked_achievements.
C3_EarnedAreUnlocked ==
    \A k \in 1..Len(achievements) :
        condition(achievements[k], state) => unlocked(achievements[k].id)

\* Achievements were earned by a completion and by an XP change.
C3_Witness == unlocked("first_step") /\ unlocked("level_up")

\* C4: on the long feed, starting from the fresh state, "apprentice" enters
\* state.unlocked_achievements only in the test handler that records the 5th
\* distinct completed lesson id; it is absent while fewer than 5 lessons are
\* completed, present from then on, and never listed twice.
C4_ApprenticeOnFifth ==
    /\ [](unlocked("apprentice") <=> Cardinality(state.completed) >= 5)
    /\ [](NoDuplicates(state.unlocked_achievements))
    /\ [][(~unlocked("apprentice") /\ unlocked("apprentice")')
             => /\ TestPass
                /\ Cardinality(state.completed) = 4
                /\ Cardinality(state'.completed) = 5]_vars

\* The 5th lesson has been completed and "apprentice" is unlocked.
C4_Witness == Cardinality(state.completed) = 5 /\ unlocked("apprentice")

\* The ids, in catalog order, of the achievements that are not unlocked in s
\* and whose condition is true on s.
PendingIds(s) ==
    LET earned == SelectSeq(achievements,
                     LAMBDA a : condition(a, s)
                                /\ ~includes(s.unlocked_achievements, a.id))
    IN  [k \in 1..Len(earned) |-> earned[k].id]

\* The state on which addXP(n) calls checkAndAwardAchievements
Raised(n) ==
    [state EXCEPT !.xp = state.xp + n,
                  !.level = ((state.xp + n) \div 100) + 1]

XP60 == [DefaultState EXCEPT !.xp = 60]
XP105 == [DefaultState EXCEPT !.xp = 105, !.level = 2,
              !.unlocked_achievements = << "level_up", "explorer" >>]

\* C5: one call of checkAndAwardAchievements, alone or inside addXP, appends
\* every pending achievement, in catalog order; from the fresh state addXP(60)
\* gives xp 60, level 1 and nothing unlocked, and addXP(45) then gives xp 105,
\* level 2 and unlocks "level_up" and "explorer" in that call.
C5_AllPendingInCatalogOrder ==
    [][/\ CallCheck =>
            state'.unlocked_achievements =
                state.unlocked_achievements \o PendingIds(state)
       /\ \A n \in Amounts : addXPCall(n) =>
            state'.unlocked_achievements =
                state.unlocked_achievements \o PendingIds(Raised(n))
       /\ (state = DefaultState /\ addXPCall(60)) => state' = XP60
       /\ (state = XP60 /\ addXPCall(45)) => state' = XP105]_vars

\* addXP(60) and addXP(45) have been called on the fresh state.
C5_Witness == state = XP105

\* C6: on every state, a second call of checkAndAwardAchievements right after
\* a first one changes neither state.unlocked_achievements nor the stored
\* item, and no achievement id is listed twice.
C6_CheckIdempotent ==
    LET c1 == checkAndAwardAchievements(Ctx)
    IN  /\ checkAndAwardAchievements(c1) = c1
        /\ NoDuplicates(c1.state.unlocked_achievements)
        /\ NoDuplicates(state.unlocked_achievements)

\* A call has unlocked achievements and a further call changes nothing.
C6_Witness ==
    /\ Len(state.unlocked_achievements) >= 2
    /\ checkAndAwardAchievements(Ctx) = Ctx

IsPrefix(a, b) == Len(a) <= Len(b) /\ \A k \in 1..Len(a) : a[k] = b[k]

\* C7: within a session (every step but a page reload) xp and level never
\* decrease, and no id leaves completed or unlocked_achievements.
C7_Monotone ==
    [][phase' # "fetch" =>
          /\ state'.xp >= state.xp
          /\ state'.level >= state.level
          /\ state.completed \subseteq state'.completed
          /\ IsPrefix(state.unlocked_achievements,
                      state'.unlocked_achievements)]_vars

\* C8: when a handler that changed the progress state has finished, the
\* stored item is the JSON of the state in memory; whenever control is back
\* in the event loop after loadState() has run, loading the stored item gives
\* the state in memory.
C8_SavedAfterMutation ==
    /\ [](phase \in {"engine", "ready"}
            => loadState(DefaultState, store) = state)
    /\ [][(state' # state /\ phase # "fetch" /\ phase' # "fetch")
             => store' = Stringify(state')]_vars

\* The test handler has recorded a completion and unlocked an achievement,
\* and the stored item holds both.
C8_Witness ==
    /\ Cardinality(state.completed) = 2
    /\ unlocked("first_step")
    /\ store = Stringify(state)

Valid(s) ==
    /\ s.xp >= 0
    /\ s.level >= 1
    /\ NoDuplicates(s.unlocked_achievements)
    /\ NoDuplicates(KeysOf(s.completed))

\* C9: saving the state in memory and loading the stored item on a fresh
\* page gives back the same state, with xp >= 0, level >= 1 and no id twice
\* in the completed keys or in unlocked_achievements; the state in memory,
\* also after a load from an absent or unparseable item, has these
\* properties too.
C9_RoundTrip ==
    LET saved == saveState(Ctx).store
        s == loadState(DefaultState, saved)
    IN  /\ s = state
        /\ Valid(s)
        /\ NoDuplicates(saved.completed[1])
        /\ Valid(state)
        /\ Valid(loadState(DefaultState, store))

\* A page load has restored completions and achievements that an earlier
\* session saved.
C9_Witness ==
    /\ phase = "engine"
    /\ state.completed # {}
    /\ state.unlocked_achievements # << >>

\* C10: with an absent or unparseable stored item, the loadState() of main()
\* leaves the default state, writes no error to the output panel and main()
\* goes on to load the engine; every later write of the stored item replaces
\* it by the JSON of the state in memory.
C10_SilentFallback ==
    /\ [][(FetchOk /\ store.kind \in {"absent", "garbage"})
             => /\ state' = DefaultState
                /\ outputEl' = "info"
                /\ phase' = "engine"]_vars
    /\ [][store' # store => store' = Stringify(state')]_vars

\* Start-up has reached the ready state over an unparseable stored item.
C10_Witness ==
    /\ phase = "ready"
    /\ store.kind = "garbage"
    /\ state = DefaultState
    /\ outputEl = "info"

\* C11: a grading request whose user text raises an exception comes back with
\* passed = false, the exception text as error and the lines printed before
\* the exception as output, the checker code not having run; the handler then
\* adds exactly one to the lesson's failCounts entry and leaves xp, level and
\* completed alone.
C11_UserExceptionFails ==
    [][\A userSrc \in Sources :
         (testReq # 0 /\ exec(userSrc).raised /\ gradeResume(userSrc)) =>
            LET lesson == lessons[testReq]
                parsed == harness(userSrc, lesson.tests)
            IN  /\ ~parsed.rejected
                /\ ~parsed.passed
                /\ parsed.error = "exception"
                /\ parsed.output = exec(userSrc).out
                /\ ~parsed.ran
                /\ failCounts' = [failCounts EXCEPT ![lesson.id] = @ + 1]
                /\ state' = state]_vars

\* The same for the texts that hold no triple-quoted string and no escape
\* sequence.
C11_PlainTexts ==
    [][\A userSrc \in Sources :
         (testReq # 0 /\ exec(userSrc).raised /\ literalCloses(userSrc)
            /\ pythonLiteral(userSrc) = userSrc /\ gradeResume(userSrc)) =>
            LET lesson == lessons[testReq]
                parsed == harness(userSrc, lesson.tests)
            IN  /\ ~parsed.rejected
                /\ ~parsed.passed
                /\ parsed.error = "exception"
                /\ parsed.output = exec(userSrc).out
                /\ ~parsed.ran
                /\ failCounts' = [failCounts EXCEPT ![lesson.id] = @ + 1]
                /\ state' = state]_vars

\* C12: checker code that defines no check function gives passed = false with
\* the "No 'check' function" diagnostic for every user text that runs without
\* an exception, and the handler treats it as an ordinary failed attempt: xp,
\* level and completed stay, the lesson's failCounts entry grows by one, the
\* output panel shows the captured output and not the harness-failure
\* message, and the Test button is enabled again.
C12_NoCheckIsOrdinaryFailure ==
    [][\A userSrc \in Sources :
         (testReq # 0 /\ lessons[testReq].tests < 0 /\ ~exec(userSrc).raised
            /\ gradeResume(userSrc)) =>
            LET lesson == lessons[testReq]
                parsed == harness(userSrc, lesson.tests)
            IN  /\ ~parsed.rejected
                /\ ~parsed.passed
                /\ parsed.error = "nocheck"
                /\ failCounts' = [failCounts EXCEPT ![lesson.id] = @ + 1]
                /\ state' = state /\ store' = store
                /\ outputEl' = "result"
                /\ ~testBtn']_vars

\* The same for the texts that hold no triple-quoted string and no escape
\* sequence.
C12_PlainTexts ==
    [][\A userSrc \in Sources :
         (testReq # 0 /\ lessons[testReq].tests < 0 /\ ~exec(userSrc).raised
            /\ literalCloses(userSrc) /\ pythonLiteral(userSrc) = userSrc
            /\ gradeResume(userSrc)) =>
            LET lesson == lessons[testReq]
                parsed == harness(userSrc, lesson.tests)
            IN  /\ ~parsed.rejected
                /\ ~parsed.passed
                /\ parsed.error = "nocheck"
                /\ failCounts' = [failCounts EXCEPT ![lesson.id] = @ + 1]
                /\ state' = state /\ store' = store
                /\ outputEl' = "result"
                /\ ~testBtn']_vars

\* C13: what the run and step handlers do with a trace request whose engine
\* call rejected or whose response did not parse differs from what they do
\* with the result of a user program that raised an exception: no step of a
\* handler is both.
C13_TransportToldApart ==
    [][/\ (runReq /\ runResume("transport")) => ~runResume("exception")
       /\ (stepReq /\ stepResume("transport", 0)) => ~stepResume("exception", 0)]_vars

\* C14: when the engine call of a run, step or test action rejects or returns
\* a text that does not parse, the handler shows a message and leaves xp,
\* level, completed, unlocked_achievements, failCounts and the stored item as
\* they were.
C14_TransientFailureChangesNothing ==
    [][((runReq \/ stepReq \/ testReq # 0)
          /\ (\/ runResume("transport")
              \/ stepResume("transport", 0)
              \/ TestHarnessFailed)) =>
            /\ outputEl' \in {"error", "harnessFailed"}
            /\ state' = state
            /\ failCounts' = failCounts
            /\ store' = store]_vars

\* The same for the step and test handlers alone.
C14_StepAndTest ==
    [][((stepReq \/ testReq # 0)
          /\ (stepResume("transport", 0) \/ TestHarnessFailed)) =>
            /\ outputEl' \in {"error", "harnessFailed"}
            /\ state' = state
            /\ failCounts' = failCounts
            /\ store' = store]_vars

\* C15: once the engine call of a run, step or test activation has settled
\* and, for step, the playback timer has stopped, the control that was
\* activated is enabled again, whatever the engine answered.
C15_ControlComesBack ==
    /\ ~runReq => ~runBtn
    /\ (~stepReq /\ ~timer.on) => ~stepBtn
    /\ testReq = 0 => ~testBtn

\* The same for the Test control alone, whose continuation runs inside
\* try/catch.
C15_TestComesBack == testReq = 0 => ~testBtn

\* C16: while a request started by the Run, Step or Test button is in flight,
\* and while the playback timer of Step runs, the button is disabled and a
\* click on it starts nothing; a step request and a playback timer never
\* exist together, so there is at most one request per button and at most
\* one timer.
C16_OneInFlight ==
    /\ runReq => (runBtn /\ ~ENABLED RunClick)
    /\ (stepReq \/ timer.on) => (stepBtn /\ ~ENABLED StepClick)
    /\ ~(stepReq /\ timer.on)
    /\ testReq # 0 => (testBtn /\ ~ENABLED TestClick)

C16_Witness ==
    /\ runReq /\ runBtn
    /\ timer.on /\ stepBtn
    /\ testReq # 0 /\ testBtn

\* C17: a step request that succeeds with n >= 1 frames starts the timer at
\* frame 0 without XP; each tick renders the frame at the timer's index,
\* which lies in 0..n-1 and goes up by one per tick; the tick that renders
\* frame n-1 stops the timer, adds the step XP once and enables the button
\* (Idle), and no tick before it changes the progress state; a step request
\* that fails shows the error and returns to Idle with no timer and no XP.
C17_Playback ==
    [][/\ (timer.on /\ StepTick) =>
            /\ timer.i \in 0..(timer.n - 1)
            /\ IF timer.i = timer.n - 1
               THEN /\ ~timer'.on /\ ~stepBtn' /\ ~stepReq'
                    /\ state'.xp = state.xp + STEP_XP
               ELSE /\ timer' = [on |-> TRUE, i |-> timer.i + 1, n |-> timer.n]
                    /\ stepBtn'
                    /\ state' = state /\ store' = store
       /\ (timer.on /\ timer'.on) => state' = state
       /\ \A n \in 1..MaxFrames :
            (stepReq /\ stepResume("ok", n)) =>
               /\ timer' = [on |-> TRUE, i |-> 0, n |-> n]
               /\ stepBtn'
               /\ state' = state /\ store' = store
       /\ \A parsed \in {"exception", "transport"} :
            (stepReq /\ stepResume(parsed, 0)) =>
               /\ outputEl' = "error"
               /\ ~timer'.on /\ ~stepBtn' /\ ~stepReq'
               /\ state' = state /\ store' = store]_vars

\* An earlier playback has been paid, and a playback of two or more frames
\* is about to render its last frame.
C17_Witness ==
    /\ timer.on
    /\ timer.n >= 2
    /\ timer.i = timer.n - 1
    /\ state.xp >= STEP_XP

\* C18: for every lesson, with a list of hints, an empty list or no list, and
\* every fail count, a failed grading alerts either nothing or the hint at an
\* index within 0..hints.length-1, and a click on the hint button alerts the
\* hint at such an index and counts the click, or else reports that there
\* are no more hints and leaves failCounts alone.
C18_HintIndexInRange ==
    [][/\ (testReq # 0 /\ TestFailMany) =>
            LET lesson == lessons[testReq]
                hid == testHint(lesson, failCounts'[lesson.id])
            IN  hid = NoHint \/ hid \in 0..(lesson.hints - 1)
       /\ (currentLesson # 0 /\ HintClickMany) =>
            LET lesson == lessons[currentLesson]
                attempts == failCount(lesson.id)
                idx == hintShown(lesson, attempts)
            IN  IF idx = NoHint
                THEN /\ failCounts' = failCounts
                     /\ ~(lesson.hints >= 0
                            /\ hintIndex(lesson, attempts) \in 0..(lesson.hints - 1))
                ELSE /\ idx \in 0..(lesson.hints - 1)
                     /\ failCounts'[lesson.id] = attempts + 1]_vars

\* The failed grading that has just been counted alerts the last hint of a
\* lesson because the index was clamped, lessons without a list and with an
\* empty list have failed gradings too.
C18_Witness ==
    /\ phase = "ready"
    /\ \E k \in 1..Len(lessons) :
         LET lesson == lessons[k]
             attempts == failCount(lesson.id)
         IN  /\ lesson.hints >= 1
             /\ testHint(lesson, attempts) = lesson.hints - 1
             /\ (attempts \div 2) - 1 > lesson.hints - 1
    /\ \E k \in 1..Len(lessons) :
         lessons[k].hints = -1 /\ failCount(lessons[k].id) >= 2

\* C19: when main() has stopped during start-up (feed not fetched or
\* malformed, engine not loaded) the output panel shows the start-up error,
\* no lesson is selected, no request or timer exists and a click on Run,
\* Step, Test or Hint starts nothing.
C19_StartupFailureIsFatal ==
    phase = "halted" =>
        /\ outputEl = "startupError"
        /\ currentLesson = 0
        /\ ~runReq /\ ~stepReq /\ testReq = 0 /\ ~timer.on
        /\ ~ENABLED RunClick
        /\ ~ENABLED StepClick
        /\ ~ENABLED TestClick
        /\ ~ENABLED HintClick

\* C20: in the prototype variant a passing grade on a lesson that is already
\* in state.completed adds no XP.
C20_ProtoRewardOnlyOnce ==
    [][(testReq # 0 /\ lessons[testReq].id \in state.completed /\ ProtoTestPass)
          => state'.xp = state.xp]_vars

\* C21: in src/app.js no failure of an engine call made by runCode, checkCode
\* or visualizeCode leaves its handler uncaught, whatever the order of
\* engine loading, lesson loading and clicks.
C21_NothingUncaught == ~app.uncaught

\* The same for runCode and visualizeCode alone: their failures end in the
\* output element.
C21_RunAndVisualizeCaught ==
    [][(RunCodeClick \/ RunCodeDone \/ VisualizeClick \/ VisualizeDone)
          => app'.uncaught = app.uncaught]_vars

\* C26: in src/app.js, whenever traceData is not empty the cursor lies in
\* 0..traceData.length-1, and a click on prevStep at index 0 or on nextStep
\* at the last index does not move it.
C26_CursorInBounds ==
    /\ app.traceData > 0 => app.currentStep \in 0..(app.traceData - 1)
    /\ app.currentStep = 0 => ~ENABLED prevStep
    /\ (app.traceData > 0 /\ app.currentStep = app.traceData - 1)
          => ~ENABLED nextStep

\* The cursor stands on the last frame of a trace of two or more frames
\* while another visualizeCode call is in flight.
C26_Witness ==
    /\ app.traceData >= 2
    /\ app.currentStep = app.traceData - 1
    /\ app.vizCalls > 0

\* C22: for every user text, with or without a triple quote or a backslash,
\* the literal that carries it into the harness closes at its end and has
\* the text itself as value (the engine runs exactly that text), the
\* request yields a {passed, error, output} result and the handler does not
\* end in the harness-failure branch.
C22_TextPassedAsData ==
    [][\A userSrc \in Sources :
         (testReq # 0 /\ gradeResume(userSrc)) =>
            /\ literalCloses(userSrc)
            /\ pythonLiteral(userSrc) = userSrc
            /\ ~harness(userSrc, lessons[testReq].tests).rejected
            /\ outputEl' # "harnessFailed"]_vars

\* The same for the texts that hold no triple-quoted string and no escape
\* sequence.
C22_PlainTexts ==
    [][\A userSrc \in Sources :
         (testReq # 0 /\ literalCloses(userSrc)
            /\ pythonLiteral(userSrc) = userSrc /\ gradeResume(userSrc)) =>
            /\ ~harness(userSrc, lessons[testReq].tests).rejected
            /\ outputEl' # "harnessFailed"]_vars

\* C23: once loadState() has run, level is the level of xp: after loading
\* any stored item with integer xp and level, and after every later handler,
\* level = floor(xp / 100) + 1.
C23_LevelOfXP ==
    phase \in {"engine", "ready"}
        => state.level = (state.xp \div LEVEL_XP_QUANTUM) + 1

\* C24: within a session (every step but a page reload), for every lesson,
\* whatever the mix of failed gradings, hint requests and lesson switches:
\* the fail counter of the lesson never decreases, and a hint displayed for
\* the lesson, by the automatic path or by the hint button, never has a lower
\* index than the hint displayed for it before.
C24_HintsMoveForward ==
    [][phase' # "fetch" =>
          \A id \in LessonIds :
             /\ failCounts'[id] >= failCounts[id]
             /\ shown'[id] >= shown[id]]_vars

C24_Witness ==
    /\ phase = "ready"
    /\ currentLesson = 2
    /\ failCount(lessons[2].id) >= 1
    /\ lessons[1].hints >= 2
    /\ shown[lessons[1].id] = lessons[1].hints - 1
    /\ failCount(lessons[1].id) >= 2 * lessons[1].hints

\* C25: when the result of a grading request arrives after the user has
\* selected another lesson, it is applied to the lesson captured at the
\* click: a pass completes that lesson and adds its reward (once) and touches
\* no fail counter; a failure adds one to the fail counter of that lesson
\* only, alerts the automatic hint of that lesson only and leaves the
\* progress state alone.
C25_ResultGoesToCapturedLesson ==
    [][(testReq # 0 /\ currentLesson # testReq) =>
          LET lesson == lessons[testReq]
          IN  /\ TestPass =>
                    /\ state'.completed = state.completed \cup {lesson.id}
                    /\ state'.xp = state.xp +
                          (IF lesson.id \in state.completed
                           THEN 0 ELSE reward(lesson))
                    /\ failCounts' = failCounts
                    /\ shown' = shown
              /\ TestFailMany =>
                    /\ failCounts' = [failCounts EXCEPT
                                         ![lesson.id] = failCount(lesson.id) + 1]
                    /\ \A id \in LessonIds \ {lesson.id} : shown'[id] = shown[id]
                    /\ shown'[lesson.id] # shown[lesson.id] =>
                          shown'[lesson.id]
                             = testHint(lesson, failCount(lesson.id) + 1)
                    /\ state' = state]_vars

\* Lesson 2 is selected and untouched, and the result shown last completed
\* lesson 1, added its reward, or counted its second failure with its first
\* hint.
C25_Witness ==
    /\ phase = "ready"
    /\ currentLesson = 2
    /\ outputEl = "result"
    /\ testReq = 0
    /\ failCount(lessons[2].id) = 0
    /\ state.completed = {lessons[1].id}
    /\ state.xp = reward(lessons[1])
    /\ failCount(lessons[1].id) = 2
    /\ shown[lessons[1].id] = 0

====
